---- MODULE Spec2Model ----
(***************************************************************************)
(* Model of earthkit.data.readers (reader registry and dispatch) and of    *)
(* earthkit.data.readers.grib.memory (GribMemoryReader, the pull iterator  *)
(* over decoded GRIB messages, and FieldListInMemory, the lazily drained   *)
(* field list built on it).                                                *)
(*                                                                         *)
(* A field is identified by the position (1..Len(origin)) of the native    *)
(* handle it wraps; origin[i] holds the metadata of the i-th message.      *)
(*                                                                         *)
(* Spec: the calls on a reader and on the lists made from it, in any       *)
(* order. StreamSpec: the calls on a reader, then the drain by a list,     *)
(* with the history of what was returned. ListSpec: the calls on a list    *)
(* over a reader of its own. RegistrySpec, DispatchSpec, ReaderSpec: the   *)
(* threads in _readers, the _find_reader calls, the reader(source, path)   *)
(* calls. SourceSpec: a Source going away under the Readers made for it.   *)
(* MessageSpec: the calls of StreamSpec on a GribMessageMemoryReader, the  *)
(* reader over one buffer of one message.                                  *)
(***************************************************************************)
EXTENDS Integers, Sequences, FiniteSets, TLC

\* ------------------------------------------------------------------ bounds
MaxRecords == 3
MaxBatch == 2
MaxPeekRun == 2
MaxCalls == 2

\* The origin is pulled once per record and once more for the end of the
\* data; one further pull past the end is explored.
MaxPulls == MaxRecords + 2

\* ------------------------------------------------------- values and inputs
\* Python's None, for handles, fields and the _peeked slot.
None == 0

\* Metadata keys of a message and the values they take.
Keys == {"k1", "k2"}
Values == {"A", "B"}

\* The key lists handed to read_group.
Groups == {<<>>, <<"k1">>, <<"k1", "k2">>}

\* The outcome of a call: the exception raised ("" when it returns), the
\* field or integer returned, the list returned.
Returned(v) == [exc |-> "", val |-> v, list |-> <<>>, loaded |-> FALSE]
ReturnedList(l) == [exc |-> "", val |-> None, list |-> l._fields, loaded |-> l._loaded]
Raised(e) == [exc |-> e, val |-> None, list |-> <<>>, loaded |-> FALSE]

Range(s) == {s[i] : i \in DOMAIN s}

VARIABLES
    origin,     \* the messages the byte origin holds, in order
    reader,     \* the GribMemoryReader: _peeked, and the origin's read position
    fs,         \* the FieldListInMemory constructed over the reader
    grp,        \* the FieldListInMemory last built by from_fields
    op,         \* the last call made
    result,     \* what it returned or raised
    modules,    \* the reader modules found in the package directory
    _READERS,   \* the registry: (name, method) -> constructor, in insertion order
    lock,       \* the thread inside a @locked function, "" when none is
    threads,    \* each thread's place in _readers, its argument and its result
    scans,      \* how many times the discovery scan was started
    calls,      \* how many calls of _readers and _find_reader were made
    logged,     \* the modules an "Error loading reader" was logged for
    dups,       \* the keys that were assigned while already in the registry
    found,      \* the last _find_reader call and the reader it returned
    sub,        \* the object the last slice of fs returned
    delivered,  \* the records the consuming calls have returned so far, in order
    failed,     \* whether a call on the reader or the list has raised
    made,       \* the last reader(source, path) call and what came of it
    source,     \* the Source: its reader override, and whether it is still alive
    access      \* the last access of the Reader made for it, and its outcome

gribvars == <<origin, reader, fs, grp, op, result>>
regvars == <<modules, _READERS, lock, threads, scans, calls, logged, dups, found>>
listvars == <<sub, delivered, failed>>
srcvars == <<made, source, access>>
auxvars == <<listvars, srcvars>>
vars == <<gribvars, regvars, auxvars>>

\* --------------------------------------------------- the reader registry
\* The three construction protocols, in the order the scan tries them.
Methods == <<"reader", "memory_reader", "stream_reader">>

\* The module names the listing yields, sorted, once the names starting
\* with "_" or "." and the entries that are no module are skipped.
ModuleNames == <<"m1", "m_2">>

\* The aliases lists a module may have: none, or one name, which two
\* modules may both claim.
AliasLists == {<<>>, <<"x">>}

\* A module: whether importing it succeeds, the protocols it has a
\* constructor for, and its aliases. A module that cannot be imported
\* shows nothing else.
ModuleKinds ==
    {[loads |-> FALSE, exports |-> {}, aliases |-> <<>>]}
        \cup [loads : {TRUE}, exports : SUBSET {"reader", "memory_reader", "stream_reader"},
              aliases : AliasLists]

Threads == {"t1", "t2"}

\* dict[k] = v on a dict kept as the sequence of its items: an existing
\* key keeps its place, a new one goes last.
DictSet(d, k, v) ==
    IF \E i \in DOMAIN d : d[i].key = k
    THEN [i \in DOMAIN d |-> IF d[i].key = k THEN [key |-> k, ctor |-> v] ELSE d[i]]
    ELSE Append(d, [key |-> k, ctor |-> v])

DictKeys(d) == {d[i].key : i \in DOMAIN d}

\* for a in module.aliases: assert a not in _READERS; _READERS[(a, method_name)] = ...
\* The keys are (name, method) pairs and a is a name: <<a>> is no key.
RECURSIVE register_aliases(_, _, _, _, _)
register_aliases(R, aliases, ctor, method_name, seen) ==
    IF aliases = <<>>
    THEN [R |-> R, exc |-> "", dups |-> seen]
    ELSE LET a == Head(aliases)
         IN  IF <<a>> \in DictKeys(R)
             THEN [R |-> R, exc |-> "AssertionError", dups |-> seen]
             ELSE register_aliases(
                      DictSet(R, <<a, method_name>>, ctor), Tail(aliases), ctor, method_name,
                      IF <<a, method_name>> \in DictKeys(R)
                      THEN seen \cup {<<a, method_name>>} ELSE seen)

\* for method in ["reader", "memory_reader", "stream_reader"]: ...
\* An exception leaves the loop; al is what registering the aliases of
\* one constructor gave.
RECURSIVE register_methods(_, _, _, _, _, _), after_aliases(_, _, _, _, _)
register_methods(R, name, mod, methods, method_name, seen) ==
    IF methods = <<>>
    THEN [R |-> R, exc |-> "", dups |-> seen]
    ELSE IF ~mod.loads
         THEN [R |-> R, exc |-> "ImportError", dups |-> seen]
         ELSE IF Head(methods) \in mod.exports
              THEN after_aliases(
                       register_aliases(
                           DictSet(R, <<name, Head(methods)>>, <<name, Head(methods)>>),
                           mod.aliases, <<name, Head(methods)>>, method_name,
                           IF <<name, Head(methods)>> \in DictKeys(R)
                           THEN seen \cup {<<name, Head(methods)>>} ELSE seen),
                       name, mod, methods, method_name)
              ELSE register_methods(R, name, mod, Tail(methods), method_name, seen)

after_aliases(al, name, mod, methods, method_name) ==
    IF al.exc # ""
    THEN al
    ELSE register_methods(al.R, name, mod, Tail(methods), method_name, al.dups)

\* except Exception: LOG.exception("Error loading reader %s", name)
caught(r, name) ==
    [R |-> r.R, logged |-> IF r.exc # "" THEN {name} ELSE {}, dups |-> r.dups]

\* The body of the scan for one module, with its try / except Exception:
\* whatever is raised is logged and the scan goes on.
scan_module(R, name, mod, method_name) ==
    caught(register_methods(R, name, mod, Methods, method_name, {}), name)

\* {k[0]: v for k, v in _READERS.items() if k[1] == method_name}
mapping(R, method_name) ==
    LET sel == SelectSeq(R, LAMBDA e : e.key[2] = method_name)
    IN  [i \in DOMAIN sel |-> [name |-> sel[i].key[1], ctor |-> sel[i].ctor]]

\* What a scan has done so far, then what it did for one more module.
scanned_also(sofar, one) ==
    [R |-> one.R, logged |-> sofar.logged \cup one.logged, dups |-> sofar.dups \cup one.dups]

\* for path in sorted(os.listdir(here)): ..., from the i-th module on.
RECURSIVE scan_from(_, _, _, _)
scan_from(sofar, mods, i, method_name) ==
    IF i > Len(ModuleNames)
    THEN sofar
    ELSE scan_from(
             scanned_also(sofar, scan_module(sofar.R, ModuleNames[i], mods[ModuleNames[i]],
                                             method_name)),
             mods, i + 1, method_name)

\* return {k[0]: v ...}, with what the call did to the registry.
returning(sc, scanned, method_name) ==
    [R |-> sc.R, logged |-> sc.logged, dups |-> sc.dups, scanned |-> scanned,
     ret |-> mapping(sc.R, method_name)]

\* One whole call of _readers, as a caller that is alone sees it.
_readers(R, mods, method_name) ==
    IF R = <<>>
    THEN returning(scan_from([R |-> R, logged |-> {}, dups |-> {}], mods, 1, method_name),
                   1, method_name)
    ELSE returning([R |-> R, logged |-> {}, dups |-> {}], 0, method_name)

\* ------------------------------------------------------------- dispatch
\* How the input looks to the constructors of a module: not theirs
\* ("no"), theirs at a glance ("shallow"), theirs on a deeper look only.
Verdicts == {"no", "shallow", "deep"}

NoReader == [cls |-> "None", method |-> "", path |-> "", mutated |-> FALSE]

\* r(source, path_or_bufr_or_stream, magic, deeper_check): None, or the
\* Reader of the constructor's module.
construct(ctor, path, accepts, deeper_check) ==
    IF accepts[ctor[1]] = "shallow" \/ (accepts[ctor[1]] = "deep" /\ deeper_check)
    THEN [cls |-> ctor[1], method |-> ctor[2], path |-> path, mutated |-> FALSE]
    ELSE NoReader

\* Reader.mutate(): the reader the caller is to use.
mutate(r) == [r EXCEPT !.mutated = TRUE]

\* The fallback that ignores which protocol was asked for.
Unknown_keeps_path(method_name, path) ==
    [cls |-> "Unknown", method |-> "", path |-> path, mutated |-> FALSE]

\* Unknown(source, path_or_bufr_or_stream if method_name == "reader" else "", magic)
Unknown(method_name, path) ==
    [cls |-> "Unknown", method |-> "",
     path |-> IF method_name = "reader" THEN path ELSE "", mutated |-> FALSE]

\* for name, r in _readers(method_name).items(): the first reader that is
\* not None, mutated; tries lists the constructor calls made, in order.
RECURSIVE first_reader(_, _, _, _, _)
first_reader(items, path, accepts, deeper_check, tries) ==
    IF items = <<>>
    THEN [rdr |-> NoReader, tries |-> tries]
    ELSE LET rdr == construct(Head(items).ctor, path, accepts, deeper_check)
             tried == Append(tries, <<Head(items).ctor, deeper_check>>)
         IN  IF rdr # NoReader
             THEN [rdr |-> mutate(rdr), tries |-> tried]
             ELSE first_reader(Tail(items), path, accepts, deeper_check, tried)

\* What _find_reader has done before its first pass: the registry, the
\* scans made (with what they logged and overwrote), the constructor
\* calls made, the reader found.
NoPass(R) ==
    [R |-> R, scanned |-> 0, logged |-> {}, dups |-> {}, tries |-> <<>>, rdr |-> NoReader]

\* The same after one more pass, whose call of _readers gave rs and whose
\* loop over the constructors gave fr.
passed(sofar, rs, fr) ==
    [R |-> rs.R, scanned |-> sofar.scanned + rs.scanned,
     logged |-> sofar.logged \cup rs.logged, dups |-> sofar.dups \cup rs.dups,
     tries |-> fr.tries, rdr |-> fr.rdr]

one_pass(sofar, rs, path, accepts, deeper_check) ==
    passed(sofar, rs, first_reader(rs.ret, path, accepts, deeper_check, sofar.tries))

\* for deeper_check in checks: ... return reader.mutate(); then the fallback.
RECURSIVE find_passes(_, _, _, _, _, _), next_pass(_, _, _, _, _, _)
find_passes(sofar, mods, method_name, path, accepts, checks) ==
    IF checks = <<>>
    THEN [sofar EXCEPT !.rdr = Unknown(method_name, path)]
    ELSE next_pass(
             one_pass(sofar, _readers(sofar.R, mods, method_name), path, accepts,
                      Head(checks)),
             mods, method_name, path, accepts, Tail(checks))

next_pass(sofar, mods, method_name, path, accepts, checks) ==
    IF sofar.rdr # NoReader
    THEN sofar
    ELSE find_passes(sofar, mods, method_name, path, accepts, checks)

\* A dispatch that makes the deep pass only.
_find_reader_deep_only(R, mods, method_name, path, accepts) ==
    find_passes(NoPass(R), mods, method_name, path, accepts, <<TRUE>>)

_find_reader(R, mods, method_name, path, accepts) ==
    find_passes(NoPass(R), mods, method_name, path, accepts, <<FALSE, TRUE>>)

\* ---------------------------------------------------- reader(source, path)
\* What a Source has for a reader attribute: none, a callable, a format
\* name (a str), or an object that is neither.
Strings == {"m1", "m-2"}
Overrides == {"absent", "callable", "other"} \cup Strings

\* reader.replace("-", "_")
replace(s) == IF s = "m-2" THEN "m_2" ELSE s

\* What a reader(source, path) call has come to: what it did to the
\* registry, what it raised, the Reader it returned, whether it called
\* os.path.isdir, opened the file, went through _find_reader.
outcome(f, exc, rdr, isdir, opened, dispatch) ==
    [R |-> f.R, scanned |-> f.scanned, logged |-> f.logged, dups |-> f.dups,
     tries |-> f.tries, exc |-> exc, rdr |-> rdr, isdir |-> isdir, opened |-> opened,
     dispatch |-> dispatch]

\* A call of _readers with the positional arguments args: the function
\* takes method_name, and a call without it raises TypeError.
call_readers(R, mods, args) ==
    IF Len(args) # 1
    THEN [R |-> R, logged |-> {}, dups |-> {}, scanned |-> 0, ret |-> <<>>, exc |-> "TypeError"]
    ELSE [R |-> _readers(R, mods, args[1]).R,
          logged |-> _readers(R, mods, args[1]).logged,
          dups |-> _readers(R, mods, args[1]).dups,
          scanned |-> _readers(R, mods, args[1]).scanned,
          ret |-> _readers(R, mods, args[1]).ret,
          exc |-> ""]

\* rs[name](source, path, None, False), rs being what _readers gave.
by_name(rs, name, path, accepts) ==
    IF rs.exc # ""
    THEN outcome([NoPass(rs.R) EXCEPT !.scanned = rs.scanned, !.logged = rs.logged,
                                      !.dups = rs.dups],
                 rs.exc, NoReader, FALSE, FALSE, FALSE)
    ELSE IF \A i \in DOMAIN rs.ret : rs.ret[i].name # name
         THEN outcome([NoPass(rs.R) EXCEPT !.scanned = rs.scanned, !.logged = rs.logged,
                                           !.dups = rs.dups],
                      "KeyError", NoReader, FALSE, FALSE, FALSE)
         ELSE outcome([NoPass(rs.R) EXCEPT !.scanned = rs.scanned, !.logged = rs.logged,
                                           !.dups = rs.dups],
                      "",
                      construct(rs.ret[CHOOSE i \in DOMAIN rs.ret : rs.ret[i].name = name].ctor,
                                path, accepts, FALSE),
                      FALSE, FALSE, FALSE)

\* The Reader a callable override returns, and the one made for a
\* directory.
ByCallable(path) == [cls |-> "callable", method |-> "", path |-> path, mutated |-> FALSE]
DirectoryReader(path) == [cls |-> "DirectoryReader", method |-> "", path |-> path, mutated |-> FALSE]

\* reader(source, path) of earthkit.data.readers; dir is what
\* os.path.isdir(path) gives.
readers_reader(R, mods, src, path, dir, accepts) ==
    IF src.reader # "absent"
    THEN IF src.reader = "callable"
         THEN outcome(NoPass(R), "", ByCallable(path), FALSE, FALSE, FALSE)
         ELSE IF src.reader \in Strings
              THEN by_name(call_readers(R, mods, <<>>), replace(src.reader), path, accepts)
              ELSE outcome(NoPass(R), "TypeError", NoReader, FALSE, FALSE, FALSE)
    ELSE IF dir
         THEN outcome(NoPass(R), "", mutate(DirectoryReader(path)), TRUE, FALSE, FALSE)
         ELSE outcome(_find_reader(R, mods, "reader", path, accepts), "",
                      _find_reader(R, mods, "reader", path, accepts).rdr, TRUE, TRUE, TRUE)

\* ------------------------------------------------------- GribMemoryReader
\* GribMessageMemoryReader._next_handle without `self.buf = None`.
message_next_handle_keeps_buf(rd) ==
    IF rd.buf = None
    THEN [rd |-> [rd EXCEPT !.pulls = @ + 1], handle |-> None]
    ELSE [rd |-> [rd EXCEPT !.pulls = @ + 1, !.decodes = @ + 1], handle |-> rd.buf]

\* GribMessageMemoryReader._next_handle: the buffer is decoded into the
\* handle of its message and the reference to it cleared; with no buffer
\* there is no handle. decodes counts the codes_new_from_message calls.
message_next_handle(rd) ==
    IF rd.buf = None
    THEN [rd |-> [rd EXCEPT !.pulls = @ + 1], handle |-> None]
    ELSE [rd |-> [rd EXCEPT !.buf = None, !.pulls = @ + 1, !.decodes = @ + 1],
          handle |-> rd.buf]

\* GribFileMemoryReader._next_handle / GribStreamReader._next_handle: the
\* native codec returns the next handle, or None at the end of the data.
file_next_handle(rd) ==
    IF rd.pos < Len(origin)
    THEN [rd |-> [rd EXCEPT !.pos = @ + 1, !.pulls = @ + 1], handle |-> rd.pos + 1]
    ELSE [rd |-> [rd EXCEPT !.pulls = @ + 1], handle |-> None]

\* self._next_handle(): the method of the reader's class; the reader over
\* a buffer is the one that has a buf attribute.
_next_handle(rd) ==
    IF "buf" \in DOMAIN rd
    THEN message_next_handle(rd)
    ELSE file_next_handle(rd)

_message_from_handle(handle) ==
    IF handle # None THEN handle ELSE None

\* __next__ that pulls from the origin whatever peek() holds.
__next__forgets_peeked(rd) ==
    LET h == _next_handle(rd)
        msg == _message_from_handle(h.handle)
    IN  IF h.handle # None
        THEN [rd |-> [h.rd EXCEPT !._peeked = None], exc |-> "", val |-> msg]
        ELSE [rd |-> [h.rd EXCEPT !._peeked = None], exc |-> "StopIteration", val |-> None]

__next__(rd) ==
    IF rd._peeked # None
    THEN [rd |-> [rd EXCEPT !._peeked = None], exc |-> "", val |-> rd._peeked]
    ELSE LET h == _next_handle(rd)
             msg == _message_from_handle(h.handle)
         IN  IF h.handle # None
             THEN [rd |-> h.rd, exc |-> "", val |-> msg]
             ELSE [rd |-> h.rd, exc |-> "StopIteration", val |-> None]

\* peek() without its `if self._peeked is None` test.
peek_always_pulls(rd) ==
    LET h == _next_handle(rd)
    IN  [rd |-> [h.rd EXCEPT !._peeked = _message_from_handle(h.handle)],
         val |-> _message_from_handle(h.handle)]

peek(rd) ==
    IF rd._peeked = None
    THEN LET h == _next_handle(rd)
         IN  [rd |-> [h.rd EXCEPT !._peeked = _message_from_handle(h.handle)],
              val |-> _message_from_handle(h.handle)]
    ELSE [rd |-> rd, val |-> rd._peeked]

\* ------------------------------------------------------ FieldListInMemory
__init__(rdref) ==
    [_reader |-> rdref, _loaded |-> FALSE, _fields |-> <<>>]

from_fields(fields) ==
    [__init__("None") EXCEPT !._fields = fields, !._loaded = TRUE]

\* ------------------------------------------- read_batch and read_group
\* The comprehension of read_batch stopping at the end of the data and
\* keeping what it has.
RECURSIVE batch_loop_keeps_short(_, _, _)
batch_loop_keeps_short(rd, n, fields) ==
    IF n <= 0
    THEN [rd |-> rd, exc |-> "", fields |-> fields]
    ELSE LET nx == __next__(rd)
         IN  IF nx.exc # ""
             THEN [rd |-> nx.rd, exc |-> "", fields |-> fields]
             ELSE batch_loop_keeps_short(nx.rd, n - 1, Append(fields, nx.val))

\* [self.__next__() for _ in range(n)]: the first StopIteration leaves the
\* comprehension, and the records consumed so far are dropped with it.
RECURSIVE batch_loop(_, _, _)
batch_loop(rd, n, fields) ==
    IF n <= 0
    THEN [rd |-> rd, exc |-> "", fields |-> fields]
    ELSE LET nx == __next__(rd)
         IN  IF nx.exc # ""
             THEN [rd |-> nx.rd, exc |-> nx.exc, fields |-> <<>>]
             ELSE batch_loop(nx.rd, n - 1, Append(fields, nx.val))

read_batch(rd, n) ==
    LET b == batch_loop(rd, n, <<>>)
    IN  IF b.exc # ""
        THEN [rd |-> b.rd, res |-> Raised(b.exc)]
        ELSE [rd |-> b.rd, res |-> ReturnedList(from_fields(b.fields))]

\* GribField._attributes(names): the dict of the field's values for names.
_attributes(f, group) ==
    [k \in Range(group) |-> origin[f][k]]

\* read_group consuming the record before comparing it with the group.
RECURSIVE group_loop_drops_delimiter(_, _, _, _)
group_loop_drops_delimiter(rd, group, fields, current_group) ==
    LET nx == __next__(rd)
        f == nx.val
    IN  IF nx.exc = ""
        THEN LET group_md == _attributes(f, group)
                 cg == IF DOMAIN current_group = {} THEN group_md ELSE current_group
             IN  IF cg = group_md
                 THEN group_loop_drops_delimiter(nx.rd, group, Append(fields, f), cg)
                 ELSE [rd |-> nx.rd, exc |-> "", fields |-> fields]
        ELSE IF fields # <<>>
             THEN [rd |-> nx.rd, exc |-> "", fields |-> fields]
             ELSE [rd |-> nx.rd, exc |-> "StopIteration", fields |-> <<>>]

\* read_group returning the empty group where it is to raise.
RECURSIVE group_loop_returns_empty(_, _, _, _)
group_loop_returns_empty(rd, group, fields, current_group) ==
    LET p == peek(rd)
        f == p.val
    IN  IF f # None
        THEN LET group_md == _attributes(f, group)
                 cg == IF DOMAIN current_group = {} THEN group_md ELSE current_group
             IN  IF cg = group_md
                 THEN group_loop_returns_empty(__next__(p.rd).rd, group, Append(fields, f), cg)
                 ELSE [rd |-> p.rd, exc |-> "", fields |-> fields]
        ELSE [rd |-> p.rd, exc |-> "", fields |-> fields]

\* The while True loop of read_group; current_group = {} is the function
\* of empty domain, and `not current_group` is true of it alone.
RECURSIVE group_loop(_, _, _, _)
group_loop(rd, group, fields, current_group) ==
    LET p == peek(rd)
        f == p.val
    IN  IF f # None
        THEN LET group_md == _attributes(f, group)
                 cg == IF DOMAIN current_group = {} THEN group_md ELSE current_group
             IN  IF cg = group_md
                 THEN group_loop(__next__(p.rd).rd, group, Append(fields, f), cg)
                 ELSE [rd |-> p.rd, exc |-> "", fields |-> fields]
        ELSE IF fields # <<>>
             THEN [rd |-> p.rd, exc |-> "", fields |-> fields]
             ELSE [rd |-> p.rd, exc |-> "StopIteration", fields |-> <<>>]

read_group(rd, group) ==
    LET g == group_loop(rd, group, <<>>, [k \in {} |-> "A"])
    IN  IF g.exc # ""
        THEN [rd |-> g.rd, res |-> Raised(g.exc)]
        ELSE [rd |-> g.rd, res |-> ReturnedList(from_fields(g.fields))]

\* ------------------------------------------------- _load and the accessors
\* The loop of _load putting each field before the ones it has.
RECURSIVE drain_prepends(_, _)
drain_prepends(rd, fields) ==
    LET nx == __next__(rd)
    IN  IF nx.exc # ""
        THEN [rd |-> nx.rd, fields |-> fields]
        ELSE drain_prepends(nx.rd, <<nx.val>> \o fields)

\* for f in self._reader: self._fields.append(f), until StopIteration.
RECURSIVE drain(_, _)
drain(rd, fields) ==
    LET nx == __next__(rd)
    IN  IF nx.exc # ""
        THEN [rd |-> nx.rd, fields |-> fields]
        ELSE drain(nx.rd, Append(fields, nx.val))

\* _load without `self._loaded = True`.
_load_forgets_loaded(l, rd) ==
    IF ~l._loaded
    THEN LET d == drain(rd, l._fields)
         IN  [l |-> [l EXCEPT !._fields = d.fields, !._reader = "None"], rd |-> d.rd]
    ELSE [l |-> l, rd |-> rd]

\* _load without its `if not self._loaded` test.
_load_untested(l, rd) ==
    LET d == drain(rd, l._fields)
    IN  [l |-> [l EXCEPT !._fields = d.fields, !._loaded = TRUE, !._reader = "None"],
         rd |-> d.rd]

\* A list built by from_fields holds no reader and never reaches the loop.
_load(l, rd) ==
    IF ~l._loaded
    THEN LET d == drain(rd, l._fields)
         IN  [l |-> [l EXCEPT !._fields = d.fields, !._loaded = TRUE, !._reader = "None"],
              rd |-> d.rd]
    ELSE [l |-> l, rd |-> rd]

\* Indexing that takes a negative index as out of range.
list_getitem_no_wrap(fields, n) ==
    IF n < 0 \/ n >= Len(fields)
    THEN Raised("IndexError")
    ELSE Returned(fields[n + 1])

\* Indexing that clamps an index outside the list to its nearest end.
list_getitem_clamped(fields, n) ==
    LET i == IF n < 0 THEN n + Len(fields) ELSE n
    IN  IF fields = <<>>
        THEN Raised("IndexError")
        ELSE IF i < 0
             THEN Returned(fields[1])
             ELSE IF i >= Len(fields)
                  THEN Returned(fields[Len(fields)])
                  ELSE Returned(fields[i + 1])

\* Python's list.__getitem__ for an integer: a negative index counts from
\* the end, and an index outside the list raises IndexError.
list_getitem(fields, n) ==
    LET i == IF n < 0 THEN n + Len(fields) ELSE n
    IN  IF i < 0 \/ i >= Len(fields)
        THEN Raised("IndexError")
        ELSE Returned(fields[i + 1])

__len__(l, rd) ==
    LET ld == _load(l, rd)
    IN  [l |-> ld.l, rd |-> ld.rd, res |-> Returned(Len(ld.l._fields))]

__getitem__(l, rd, n) ==
    LET ld == _load(l, rd)
    IN  [l |-> ld.l, rd |-> ld.rd, res |-> list_getitem(ld.l._fields, n)]

\* The forward iteration pass of the list: the items at 0 .. length-1.
__iter__(l, rd) ==
    LET ld == _load(l, rd)
        n == Len(ld.l._fields)
    IN  [l |-> ld.l, rd |-> ld.rd,
         res |-> [Returned(None) EXCEPT
                    !.list = [i \in 1..n |-> list_getitem(ld.l._fields, i - 1).val]]]

\* ------------------------------------------------- slices and index lists
\* A slice object: each of start, stop and step is <<>> when omitted and
\* <<i>> when given.
Slice(start, stop, step) == [start |-> start, stop |-> stop, step |-> step]

\* One end of slice.indices(n): an omitted end takes its default, a
\* negative one counts from the end of the list, and the outcome is
\* clipped to lower .. upper.
slice_end(b, n, lower, upper, default) ==
    IF b = <<>>
    THEN default
    ELSE LET v == IF b[1] < 0 THEN b[1] + n ELSE b[1]
         IN  IF v < lower THEN lower ELSE IF v > upper THEN upper ELSE v

\* slice.indices(n), for a step that is not zero.
slice_indices(sl, n) ==
    LET step == IF sl.step = <<>> THEN 1 ELSE sl.step[1]
        lower == IF step < 0 THEN 0 - 1 ELSE 0
        upper == IF step < 0 THEN n - 1 ELSE n
    IN  [start |-> slice_end(sl.start, n, lower, upper, IF step < 0 THEN upper ELSE lower),
         stop |-> slice_end(sl.stop, n, lower, upper, IF step < 0 THEN lower ELSE upper),
         step |-> step]

\* The items copied into the new list: from start, by step, up to stop.
RECURSIVE slice_items(_, _, _, _, _)
slice_items(fields, i, stop, step, items) ==
    IF (step > 0 /\ i >= stop) \/ (step < 0 /\ i <= stop)
    THEN items
    ELSE slice_items(fields, i + step, stop, step, Append(items, fields[i + 1]))

\* An object a subscript of the Python list gave: its class, its items,
\* and whether it is the very list object the field list holds.
PyList(items, same) == [class |-> "list", items |-> items, same |-> same]

\* A slice that hands out the list itself when it selects all of it.
list_getslice_shares_whole(fields, sl) ==
    IF sl.step # <<>> /\ sl.step[1] = 0
    THEN [exc |-> "ValueError", obj |-> <<>>]
    ELSE LET ix == slice_indices(sl, Len(fields))
             items == slice_items(fields, ix.start, ix.stop, ix.step, <<>>)
         IN  [exc |-> "", obj |-> <<PyList(items, items = fields)>>]

\* Python's list.__getitem__ for a slice: a new list of the selected
\* items; a step of zero raises ValueError.
list_getslice(fields, sl) ==
    IF sl.step # <<>> /\ sl.step[1] = 0
    THEN [exc |-> "ValueError", obj |-> <<>>]
    ELSE LET ix == slice_indices(sl, Len(fields))
         IN  [exc |-> "",
              obj |-> <<PyList(slice_items(fields, ix.start, ix.stop, ix.step, <<>>), FALSE)>>]

\* Python's list.__getitem__ for a list of integers: "list indices must
\* be integers or slices, not list".
list_getmulti(fields, ns) ==
    [exc |-> "TypeError", obj |-> <<>>]

\* FieldListInMemory.__getitem__ called with a slice.
getitem_slice(l, rd, sl) ==
    LET ld == _load(l, rd)
    IN  [l |-> ld.l, rd |-> ld.rd, res |-> list_getslice(ld.l._fields, sl)]

\* FieldListInMemory.__getitem__ called with a list of integers.
getitem_multi(l, rd, ns) ==
    LET ld == _load(l, rd)
    IN  [l |-> ld.l, rd |-> ld.rd, res |-> list_getmulti(ld.l._fields, ns)]

\* reversed(fs): the items at length-1 .. 0.
__reversed__(l, rd) ==
    LET ld == _load(l, rd)
        n == Len(ld.l._fields)
    IN  [l |-> ld.l, rd |-> ld.rd,
         res |-> [Returned(None) EXCEPT
                    !.list = [i \in 1..n |-> list_getitem(ld.l._fields, n - i).val]]]

\* ----------------------------------------------------------------- state
\* The origins of up to MaxRecords messages. The values of a key are
\* interchangeable, so the first message is given the value "A" for each.
Origins ==
    {o \in UNION {[1..n -> [Keys -> Values]] : n \in 0..MaxRecords} :
        Len(o) > 0 => \A k \in Keys : o[1][k] = "A"}

Indices == (0 - MaxRecords - 1)..MaxRecords

\* A call: its name, its integer and key-list arguments, whether the list
\* it was made on was loaded already, and how many peek() calls in a row
\* came right before it.
Call(name, n, group, cached, run) ==
    [name |-> name, n |-> n, group |-> group, cached |-> cached, run |-> run]

PeekRun == IF op.name = "peek" THEN op.run ELSE 0

\* A thread outside _readers: exc is what its last call raised, ret what
\* it returned.
Idle == [pc |-> "idle", req |-> "", at |-> 0, exc |-> "", ret |-> <<>>]

\* No reader(source, path) call was made yet.
NoMade ==
    [override |-> "", dir |-> FALSE, accepts |-> <<>>, exc |-> "", rdr |-> NoReader,
     isdir |-> FALSE, opened |-> FALSE]

\* No Reader was asked for its source yet.
NoAccess == [owner |-> "", path |-> "", life |-> "", exc |-> "", val |-> ""]

NoFind == [method |-> "", path |-> "", accepts |-> <<>>, tries |-> <<>>, rdr |-> NoReader]

GribInit(origins) ==
    /\ origin \in origins
    /\ reader = [_peeked |-> None, pos |-> 0, pulls |-> 0]
    /\ fs = __init__("reader")
    /\ grp = <<>>
    /\ op = Call("init", 0, <<>>, FALSE, 0)
    /\ result = Returned(None)

RegistryInit(kinds) ==
    /\ modules \in [Range(ModuleNames) -> kinds]
    /\ _READERS = <<>>
    /\ lock = ""
    /\ threads = [t \in Threads |-> Idle]
    /\ scans = 0
    /\ calls = 0
    /\ logged = {}
    /\ dups = {}
    /\ found = NoFind

\* Nothing was sliced, delivered or raised yet.
ListInit ==
    /\ sub = <<>>
    /\ delivered = <<>>
    /\ failed = FALSE

\* No reader(source, path) call was made, and no Reader accessed.
SourceInit(overrides) ==
    /\ made = NoMade
    /\ source \in [reader : overrides, life : {"held"}]
    /\ access = NoAccess

\* A reader over some origin, and the list made over it.
Init ==
    /\ GribInit(Origins)
    /\ ListInit
    /\ SourceInit({"absent"})
    /\ RegistryInit({[loads |-> FALSE, exports |-> {}, aliases |-> <<>>]})

\* The calls a user makes on the reader itself.
Peek ==
    /\ reader.pulls < MaxPulls
    /\ PeekRun < MaxPeekRun
    /\ LET p == peek(reader)
       IN  /\ reader' = p.rd
           /\ result' = Returned(p.val)
    /\ op' = Call("peek", 0, <<>>, FALSE, PeekRun + 1)
    /\ UNCHANGED <<origin, fs, grp, regvars, auxvars>>

CallNext ==
    /\ reader.pulls < MaxPulls
    /\ LET nx == __next__(reader)
       IN  /\ reader' = nx.rd
           /\ result' = IF nx.exc # "" THEN Raised(nx.exc) ELSE Returned(nx.val)
    /\ op' = Call("__next__", 0, <<>>, FALSE, PeekRun)
    /\ UNCHANGED <<origin, fs, grp, regvars, auxvars>>

ReadBatch ==
    /\ reader.pulls < MaxPulls
    /\ \E n \in 0..MaxBatch :
          LET b == read_batch(reader, n)
          IN  /\ reader' = b.rd
              /\ result' = b.res
              /\ grp' = IF b.res.exc = "" THEN <<from_fields(b.res.list)>> ELSE grp
              /\ op' = Call("read_batch", n, <<>>, FALSE, 0)
    /\ UNCHANGED <<origin, fs, regvars, auxvars>>

ReadGroup ==
    /\ reader.pulls < MaxPulls
    /\ \E group \in Groups :
          LET g == read_group(reader, group)
          IN  /\ reader' = g.rd
              /\ result' = g.res
              /\ grp' = IF g.res.exc = "" THEN <<from_fields(g.res.list)>> ELSE grp
              /\ op' = Call("read_group", 0, group, FALSE, 0)
    /\ UNCHANGED <<origin, fs, regvars, auxvars>>

\* The calls on the list constructed over the reader.
FsLen ==
    /\ fs._loaded \/ reader.pulls < MaxPulls
    /\ LET r == __len__(fs, reader)
       IN  /\ fs' = r.l
           /\ reader' = r.rd
           /\ result' = r.res
    /\ op' = Call("fs.__len__", 0, <<>>, fs._loaded, 0)
    /\ UNCHANGED <<origin, grp, regvars, auxvars>>

FsGetItem ==
    /\ fs._loaded \/ reader.pulls < MaxPulls
    /\ \E n \in Indices :
          LET r == __getitem__(fs, reader, n)
          IN  /\ fs' = r.l
              /\ reader' = r.rd
              /\ result' = r.res
              /\ op' = Call("fs.__getitem__", n, <<>>, fs._loaded, 0)
    /\ UNCHANGED <<origin, grp, regvars, auxvars>>

FsIter ==
    /\ fs._loaded \/ reader.pulls < MaxPulls
    /\ LET r == __iter__(fs, reader)
       IN  /\ fs' = r.l
           /\ reader' = r.rd
           /\ result' = r.res
    /\ op' = Call("fs.__iter__", 0, <<>>, fs._loaded, 0)
    /\ UNCHANGED <<origin, grp, regvars, auxvars>>

\* The calls on a list returned by read_batch or read_group.
GrpLen ==
    /\ grp # <<>>
    /\ LET r == __len__(grp[1], reader)
       IN  /\ grp' = <<r.l>>
           /\ reader' = r.rd
           /\ result' = r.res
    /\ op' = Call("grp.__len__", 0, <<>>, grp[1]._loaded, 0)
    /\ UNCHANGED <<origin, fs, regvars, auxvars>>

GrpGetItem ==
    /\ grp # <<>>
    /\ \E n \in Indices :
          LET r == __getitem__(grp[1], reader, n)
          IN  /\ grp' = <<r.l>>
              /\ reader' = r.rd
              /\ result' = r.res
              /\ op' = Call("grp.__getitem__", n, <<>>, grp[1]._loaded, 0)
    /\ UNCHANGED <<origin, fs, regvars, auxvars>>

Next ==
    \/ Peek
    \/ CallNext
    \/ ReadBatch
    \/ ReadGroup
    \/ FsLen
    \/ FsGetItem
    \/ FsIter
    \/ GrpLen
    \/ GrpGetItem

Spec == Init /\ [][Next]_vars

\* ------------------------------------------------ the list and its caller
\* The ends and steps of the slices, and the index lists, a caller passes
\* (an omitted step is a step of 1).
SliceEnds == {<<>>} \cup {<<i>> : i \in Indices}
SliceSteps == {<<>>} \cup {<<i>> : i \in {0 - 2, 0 - 1, 0, 2}}
IndexLists == {<<i>> : i \in Indices} \cup {<<i, j>> : i \in Indices, j \in Indices}

\* A call whose argument is a slice or a list of indices.
KeyCall(name, key, cached) ==
    [name |-> name, n |-> 0, group |-> <<>>, cached |-> cached, run |-> 0, key |-> key]

\* What a call on fs that gave r leaves behind; obj is the list object it
\* returned, <<>> when it returned none.
list_called(r, obj) ==
    /\ fs' = r.l
    /\ reader' = r.rd
    /\ result' = r.res
    /\ sub' = obj
    /\ UNCHANGED <<origin, grp, delivered, failed, regvars, srcvars>>

\* What a subscript of fs with a slice or an index list gave.
subscripted(r) ==
    [l |-> r.l, rd |-> r.rd,
     res |-> IF r.res.exc # ""
             THEN Raised(r.res.exc)
             ELSE [Returned(None) EXCEPT !.list = r.res.obj[1].items]]

ListLen ==
    /\ list_called(__len__(fs, reader), <<>>)
    /\ op' = Call("fs.__len__", 0, <<>>, fs._loaded, 0)

ListGetItem ==
    \E n \in Indices :
        /\ list_called(__getitem__(fs, reader, n), <<>>)
        /\ op' = Call("fs.__getitem__", n, <<>>, fs._loaded, 0)

ListIter ==
    /\ list_called(__iter__(fs, reader), <<>>)
    /\ op' = Call("fs.__iter__", 0, <<>>, fs._loaded, 0)

ListReversed ==
    /\ list_called(__reversed__(fs, reader), <<>>)
    /\ op' = Call("fs.__reversed__", 0, <<>>, fs._loaded, 0)

\* fs[start:stop:step]
ListSlice ==
    \E start \in SliceEnds, stop \in SliceEnds, step \in SliceSteps :
        LET r == getitem_slice(fs, reader, Slice(start, stop, step))
        IN  /\ list_called(subscripted(r), r.res.obj)
            /\ op' = KeyCall("fs.__getitem__slice", Slice(start, stop, step), fs._loaded)

\* fs[[i, j]]
ListMulti ==
    \E ns \in IndexLists :
        LET r == getitem_multi(fs, reader, ns)
        IN  /\ list_called(subscripted(r), r.res.obj)
            /\ op' = KeyCall("fs.__getitem__list", ns, fs._loaded)

\* The caller deletes the first item of the list a slice gave it
\* (del r[0]); a list that is fs._fields itself loses the item in fs too.
SubDelItem ==
    /\ sub # <<>>
    /\ sub[1].items # <<>>
    /\ sub' = <<[sub[1] EXCEPT !.items = Tail(@)]>>
    /\ fs' = IF sub[1].same THEN [fs EXCEPT !._fields = Tail(@)] ELSE fs
    /\ op' = Call("del sub[0]", 0, <<>>, fs._loaded, 0)
    /\ result' = Returned(None)
    /\ UNCHANGED <<origin, reader, grp, delivered, failed, regvars, srcvars>>

ListNext ==
    \/ ListLen
    \/ ListGetItem
    \/ ListIter
    \/ ListReversed
    \/ ListSlice
    \/ ListMulti
    \/ SubDelItem

\* A list over a reader nobody else pulls from. Its fields are told
\* apart by their place in the origin, so one origin of each length does.
ListStart ==
    /\ GribInit({o \in Origins : \A i \in DOMAIN o : \A k \in Keys : o[i][k] = "A"})
    /\ RegistryInit({[loads |-> FALSE, exports |-> {}, aliases |-> <<>>]})
    /\ ListInit
    /\ SourceInit({"absent"})

ListSpec == ListStart /\ [][ListNext]_vars

\* ------------------------------------------- the registry and its callers
\* @locked: one thread at a time is inside the function.
locked_enter(t) == lock = "" /\ lock' = t
locked_exit(t) == lock' = ""

\* A thread calls _readers(method_name) and waits for the lock.
CallReaders(t) ==
    /\ threads[t].pc = "idle"
    /\ calls < MaxCalls
    /\ \E m \in Range(Methods) :
          threads' = [threads EXCEPT ![t] = [Idle EXCEPT !.pc = "lock", !.req = m]]
    /\ calls' = calls + 1
    /\ UNCHANGED <<modules, _READERS, lock, scans, logged, dups, found, gribvars, auxvars>>

\* It takes the lock and tests `if not _READERS`.
Enter(t) ==
    /\ threads[t].pc = "lock"
    /\ locked_enter(t)
    /\ IF _READERS = <<>>
       THEN /\ threads' = [threads EXCEPT ![t] = [@ EXCEPT !.pc = "scan", !.at = 1]]
            /\ scans' = scans + 1
       ELSE /\ threads' = [threads EXCEPT ![t] = [@ EXCEPT !.pc = "return"]]
            /\ scans' = scans
    /\ UNCHANGED <<modules, _READERS, calls, logged, dups, found, gribvars, auxvars>>

\* One turn of the loop over the listing.
ScanModule(t) ==
    /\ threads[t].pc = "scan"
    /\ LET i == threads[t].at
           one == scan_module(_READERS, ModuleNames[i], modules[ModuleNames[i]],
                              threads[t].req)
       IN  /\ _READERS' = one.R
           /\ logged' = logged \cup one.logged
           /\ dups' = dups \cup one.dups
           /\ threads' = [threads EXCEPT ![t] =
                             IF i < Len(ModuleNames)
                             THEN [@ EXCEPT !.at = i + 1]
                             ELSE [@ EXCEPT !.pc = "return", !.at = 0]]
    /\ UNCHANGED <<modules, lock, scans, calls, found, gribvars, auxvars>>

\* It builds the mapping for its protocol, returns it and frees the lock.
Return(t) ==
    /\ threads[t].pc = "return"
    /\ threads' = [threads EXCEPT ![t] =
                      [@ EXCEPT !.pc = "idle", !.ret = mapping(_READERS, threads[t].req)]]
    /\ locked_exit(t)
    /\ UNCHANGED <<modules, _READERS, scans, calls, logged, dups, found, gribvars, auxvars>>

\* What a _find_reader call that gave f leaves behind.
dispatched(f, m, path, accepts) ==
    /\ _READERS' = f.R
    /\ scans' = scans + f.scanned
    /\ logged' = logged \cup f.logged
    /\ dups' = dups \cup f.dups
    /\ found' = [method |-> m, path |-> path, accepts |-> accepts,
                 tries |-> f.tries, rdr |-> f.rdr]

\* A whole _find_reader call, made by the only thread of the process.
FindReader ==
    /\ calls < MaxCalls
    /\ \E m \in Range(Methods), accepts \in [Range(ModuleNames) -> Verdicts] :
          dispatched(_find_reader(_READERS, modules, m, "path", accepts), m, "path", accepts)
    /\ calls' = calls + 1
    /\ UNCHANGED <<modules, lock, threads, gribvars, auxvars>>

RegistryNext ==
    \/ \E t \in Threads : CallReaders(t)
    \/ \E t \in Threads : Enter(t)
    \/ \E t \in Threads : ScanModule(t)
    \/ \E t \in Threads : Return(t)

\* The registry of a process whose package directory holds any modules.
RegistryStart ==
    /\ GribInit({<<>>})
    /\ ListInit
    /\ SourceInit({"absent"})
    /\ RegistryInit(ModuleKinds)

RegistrySpec == RegistryStart /\ [][RegistryNext]_vars

\* The dispatch calls of a single-threaded process.
DispatchNext == FindReader

DispatchSpec == RegistryStart /\ [][DispatchNext]_vars

\* ------------------------------------------- the reader and what it gave
\* What a call on the reader leaves behind: got is the records it
\* returned to its caller, exc what it raised.
stream_called(rd, res, got) ==
    /\ reader' = rd
    /\ result' = res
    /\ delivered' = delivered \o got
    /\ failed' = (failed \/ res.exc # "")
    /\ grp' = IF res.exc = "" /\ res.loaded THEN <<from_fields(res.list)>> ELSE grp
    /\ UNCHANGED <<origin, fs, sub, regvars, srcvars>>

\* peek() returns a record its caller does not yet have.
StreamPeek ==
    /\ ~fs._loaded
    /\ reader.pulls < MaxPulls
    /\ PeekRun < MaxPeekRun
    /\ stream_called(peek(reader).rd, Returned(peek(reader).val), <<>>)
    /\ op' = Call("peek", 0, <<>>, FALSE, PeekRun + 1)

StreamNext ==
    /\ ~fs._loaded
    /\ reader.pulls < MaxPulls
    /\ LET nx == __next__(reader)
       IN  stream_called(nx.rd,
                         IF nx.exc # "" THEN Raised(nx.exc) ELSE Returned(nx.val),
                         IF nx.exc # "" THEN <<>> ELSE <<nx.val>>)
    /\ op' = Call("__next__", 0, <<>>, FALSE, PeekRun)

StreamReadBatch ==
    /\ ~fs._loaded
    /\ reader.pulls < MaxPulls
    /\ \E n \in 0..MaxBatch :
          /\ stream_called(read_batch(reader, n).rd, read_batch(reader, n).res,
                           read_batch(reader, n).res.list)
          /\ op' = Call("read_batch", n, <<>>, FALSE, 0)

StreamReadGroup ==
    /\ ~fs._loaded
    /\ reader.pulls < MaxPulls
    /\ \E group \in Groups :
          /\ stream_called(read_group(reader, group).rd, read_group(reader, group).res,
                           read_group(reader, group).res.list)
          /\ op' = Call("read_group", 0, group, FALSE, 0)

\* len(fs), the first use of the list over the reader: it drains what is
\* left, and the list now has those records.
StreamDrain ==
    /\ ~fs._loaded
    /\ reader.pulls < MaxPulls
    /\ LET r == __len__(fs, reader)
       IN  /\ fs' = r.l
           /\ reader' = r.rd
           /\ result' = r.res
           /\ delivered' = delivered \o r.l._fields
           /\ failed' = (failed \/ r.res.exc # "")
    /\ op' = Call("fs.__len__", 0, <<>>, fs._loaded, 0)
    /\ UNCHANGED <<origin, grp, sub, regvars, srcvars>>

StreamStep ==
    \/ StreamPeek
    \/ StreamNext
    \/ StreamReadBatch
    \/ StreamReadGroup
    \/ StreamDrain

StreamSpec == Init /\ [][StreamStep]_vars

\* -------------------------------------------- the reader over one buffer
\* GribMessageMemoryReader.__init__(buf): the buffer holds the message the
\* origin has, and nothing was peeked, pulled or decoded.
GribMessageMemoryReader(buf) ==
    [_peeked |-> None, buf |-> buf, pulls |-> 0, decodes |-> 0]

\* A reader over a buffer of one message, and the list made over it.
MessageStart ==
    /\ origin \in {o \in Origins : Len(o) = 1}
    /\ reader = GribMessageMemoryReader(1)
    /\ fs = __init__("reader")
    /\ grp = <<>>
    /\ op = Call("init", 0, <<>>, FALSE, 0)
    /\ result = Returned(None)
    /\ RegistryInit({[loads |-> FALSE, exports |-> {}, aliases |-> <<>>]})
    /\ ListInit
    /\ SourceInit({"absent"})

MessageSpec == MessageStart /\ [][StreamStep]_vars

\* ------------------------------------------------- a Reader and its Source
\* The objects that are Readers, by the call that constructs them.
Owners ==
    {"Reader(source, path)", "FieldListInMemory(source, reader)",
     "FieldListInMemory(None, reader)", "FieldListInMemory.from_fields(fields)",
     "GribMemoryReader()"}

\* Reader.__init__: self._source = weakref.ref(source).
Reader__init__(self) == [self EXCEPT !._source = "weakref"]

\* The _source attribute each constructor leaves: Reader.__init__ sets it;
\* FieldListInMemory.__init__ calls Reader.__init__ when source is not
\* None; GribMemoryReader.__init__ sets _peeked only.
constructed(owner) ==
    IF owner \in {"Reader(source, path)", "FieldListInMemory(source, reader)"}
    THEN Reader__init__([_source |-> "unset"])
    ELSE [_source |-> "unset"]

\* Reader.source: self._source(). The weak reference gives the Source
\* until it is collected, and None from then on.
source_property(self, life) ==
    IF self._source = "unset"
    THEN [exc |-> "AttributeError", val |-> ""]
    ELSE IF life = "collected"
         THEN [exc |-> "", val |-> "None"]
         ELSE [exc |-> "", val |-> "source"]

\* self.source.<attribute>, for filter, merger and cache_file(...).
through_source(s, attribute) ==
    IF s.exc # ""
    THEN s
    ELSE IF s.val = "None"
         THEN [exc |-> "AttributeError", val |-> ""]
         ELSE [exc |-> "", val |-> attribute]

filter_property(self, life) == through_source(source_property(self, life), "source.filter")
merger_property(self, life) == through_source(source_property(self, life), "source.merger")
cache_file(self, life) == through_source(source_property(self, life), "source.cache_file()")

accessed(owner, path, r) ==
    access' = [owner |-> owner, path |-> path, life |-> source.life, exc |-> r.exc, val |-> r.val]

\* A Reader is asked for its source, or for something it gets through it.
AccessSource ==
    /\ \E owner \in Owners :
          \/ accessed(owner, "source", source_property(constructed(owner), source.life))
          \/ accessed(owner, "filter", filter_property(constructed(owner), source.life))
          \/ accessed(owner, "merger", merger_property(constructed(owner), source.life))
          \/ accessed(owner, "cache_file", cache_file(constructed(owner), source.life))
    /\ UNCHANGED <<source, made, gribvars, regvars, listvars>>

\* The last strong reference to the Source goes; the weak references of
\* the Readers do not count.
DropSource ==
    /\ source.life = "held"
    /\ source' = [source EXCEPT !.life = "dropped"]
    /\ UNCHANGED <<access, made, gribvars, regvars, listvars>>

\* The Source is collected, at once or when the collector runs.
CollectSource ==
    /\ source.life = "dropped"
    /\ source' = [source EXCEPT !.life = "collected"]
    /\ UNCHANGED <<access, made, gribvars, regvars, listvars>>

SourceNext ==
    \/ AccessSource
    \/ DropSource
    \/ CollectSource

SourceStart ==
    /\ GribInit({<<>>})
    /\ RegistryInit({[loads |-> FALSE, exports |-> {}, aliases |-> <<>>]})
    /\ ListInit
    /\ SourceInit({"absent"})

SourceSpec == SourceStart /\ [][SourceNext]_vars

\* ------------------------------------------------ the callers of reader()
\* What a reader(source, path) call that came to m leaves behind.
made_by(m, dir, accepts) ==
    /\ _READERS' = m.R
    /\ scans' = scans + m.scanned
    /\ logged' = logged \cup m.logged
    /\ dups' = dups \cup m.dups
    /\ found' = IF m.dispatch
                THEN [method |-> "reader", path |-> "path", accepts |-> accepts,
                      tries |-> m.tries, rdr |-> m.rdr]
                ELSE found
    /\ made' = [override |-> source.reader, dir |-> dir, accepts |-> accepts,
                exc |-> m.exc, rdr |-> m.rdr, isdir |-> m.isdir, opened |-> m.opened]

\* A whole reader(source, path) call, made by the only thread of the
\* process for the Source it holds.
MakeReader ==
    /\ calls < MaxCalls
    /\ source.life = "held"
    /\ \E dir \in BOOLEAN, accepts \in [Range(ModuleNames) -> Verdicts] :
          made_by(readers_reader(_READERS, modules, source, "path", dir, accepts), dir, accepts)
    /\ calls' = calls + 1
    /\ UNCHANGED <<modules, lock, threads, source, access, gribvars, listvars>>

ReaderNext == MakeReader

\* The modules that have a constructor for the `reader` protocol at most.
ReaderKinds == {k \in ModuleKinds : k.exports \subseteq {"reader"}}

\* A process whose Source has any reader attribute, or none.
ReaderStart ==
    /\ GribInit({<<>>})
    /\ RegistryInit(ReaderKinds)
    /\ ListInit
    /\ SourceInit(Overrides)

ReaderSpec == ReaderStart /\ [][ReaderNext]_vars

\* ---------------------------------------------------------------- claims
\* The records the reader has still to deliver: the lookahead it holds,
\* then what the origin has not yielded yet.
Remaining(rd) ==
    (IF rd._peeked # None THEN <<rd._peeked>> ELSE <<>>)
        \o [i \in 1..(Len(origin) - rd.pos) |-> rd.pos + i]

\* C1: with a record remaining, peek() returns the first remaining record
\* and consumes nothing; a peek() that follows a peek() returns the same
\* record without pulling from the origin (one pull at most for the whole
\* run of peeks); and the __next__() after the run returns that record.
C1_PeekIdempotent ==
    [][
        /\ (op'.name = "peek" /\ Remaining(reader) # <<>>) =>
              /\ result'.exc = ""
              /\ result'.val = Head(Remaining(reader))
              /\ Remaining(reader') = Remaining(reader)
              /\ reader'.pulls <= reader.pulls + 1
        /\ (op.name = "peek" /\ result.val # None /\ op'.name = "peek") =>
              /\ result'.val = result.val
              /\ reader'.pulls = reader.pulls
        /\ (op.name = "peek" /\ result.val # None /\ op'.name = "__next__") =>
              /\ result'.exc = ""
              /\ result'.val = result.val
    ]_vars

C1_Witness ==
    /\ op.name = "__next__"
    /\ op.run >= 2
    /\ result.val # None
    /\ reader.pulls = 1

\* The values of the keys of group in record f, in the order of group.
Sig(f, group) == [i \in DOMAIN group |-> origin[f][group[i]]]

\* The length of the longest prefix of recs whose records all have the
\* signature of the first.
RunLength(recs, group) ==
    CHOOSE m \in 1..Len(recs) :
        /\ \A i \in 1..m : Sig(recs[i], group) = Sig(recs[1], group)
        /\ m = Len(recs) \/ Sig(recs[m + 1], group) # Sig(recs[1], group)

\* C2: with records r1..rn remaining, read_group(keys) returns r1..rm, m
\* the length of the maximal leading run of equal key signatures, as a
\* loaded list, and leaves exactly r(m+1)..rn remaining.
C2_GroupIsLeadingRun ==
    [][
        (op'.name = "read_group" /\ Remaining(reader) # <<>>) =>
            LET recs == Remaining(reader)
                m == RunLength(recs, op'.group)
            IN  /\ result'.exc = ""
                /\ result'.loaded
                /\ result'.list = SubSeq(recs, 1, m)
                /\ Remaining(reader') = SubSeq(recs, m + 1, Len(recs))
    ]_vars

C2_Witness ==
    /\ op.name = "read_group"
    /\ Len(op.group) = 2
    /\ result.list = <<1, 2>>
    /\ Remaining(reader) = <<3>>

FsAccessors == {"fs.__len__", "fs.__getitem__"}
FsCalls == FsAccessors \cup {"fs.__iter__"}
GrpCalls == {"grp.__len__", "grp.__getitem__"}

\* What holds of the lists in every state, and of every step.
C3_State ==
    /\ fs._loaded => fs._reader = "None"
    /\ grp # <<>> => grp[1]._loaded /\ grp[1]._reader = "None"
    /\ (op.name \in {"read_batch", "read_group"} /\ result.exc = "") => result.loaded

C3_Step ==
    /\ fs._loaded => fs'._loaded
    /\ op'.name \in FsAccessors => fs'._loaded /\ fs'._reader = "None"
    /\ (fs._loaded /\ op'.name \in FsCalls) => reader' = reader /\ fs' = fs
    /\ op'.name \in GrpCalls => reader' = reader /\ grp' = grp

\* C3: a loaded list holds no reader; a list built by from_fields is
\* loaded and holds no reader from construction; _loaded never reverts;
\* once __len__ or __getitem__ was called the list is loaded; and a call
\* of __len__, __getitem__ or an iteration pass on a loaded list leaves
\* the reader (its origin position and pull count) and the list unchanged.
C3_LoadedOnce == []C3_State /\ [][C3_Step]_vars

C3_Witness ==
    /\ op.name = "fs.__iter__"
    /\ op.cached
    /\ Len(result.list) >= 2
    /\ fs._reader = "None"

\* The list a call was made on, and the sequence of fields it stands for:
\* what it has materialized, then what its reader has still to deliver.
Target(name, f, g) == IF name \in FsCalls THEN f ELSE g[1]
Contents(l, rd) == IF l._loaded THEN l._fields ELSE l._fields \o Remaining(rd)
GetItemCalls == {"fs.__getitem__", "grp.__getitem__"}

\* C9: on a list of length n, item-at(i) for 0 <= i < n returns the field
\* at position i, and it is the field item-at(i - n) returns; item-at(i)
\* for -n <= i < 0 returns the field item-at(i + n) returns.
C9_NegativeWraparound ==
    [][
        op'.name \in GetItemCalls =>
            LET l == Target(op'.name, fs', grp')
                n == Len(l._fields)
                i == op'.n
            IN  /\ (0 <= i /\ i < n) =>
                      /\ result'.exc = ""
                      /\ result'.val = l._fields[i + 1]
                      /\ __getitem__(l, reader', i - n).res = result'
                /\ (0 - n <= i /\ i < 0) =>
                      /\ result'.exc = ""
                      /\ __getitem__(l, reader', i + n).res = result'
    ]_vars

C9_Witness ==
    /\ op.name = "fs.__getitem__"
    /\ op.n = -1
    /\ Len(fs._fields) >= 2
    /\ result.val = fs._fields[Len(fs._fields)]

\* C10: on a list of length n, item-at(i) for i >= n or i < -n raises
\* IndexError and returns no field, and the list stands for the same
\* fields, and has the same length, after the call as before it.
C10_OutOfRangeRaises ==
    [][
        op'.name \in GetItemCalls =>
            LET before == Contents(Target(op'.name, fs, grp), reader)
                l == Target(op'.name, fs', grp')
                n == Len(before)
                i == op'.n
            IN  (i >= n \/ i < 0 - n) =>
                    /\ result'.exc = "IndexError"
                    /\ result'.val = None
                    /\ Contents(l, reader') = before
                    /\ __len__(l, reader').res.val = n
    ]_vars

C10_Witness ==
    /\ op.name = "fs.__getitem__"
    /\ ~op.cached
    /\ Len(fs._fields) >= 2
    /\ op.n = Len(fs._fields)
    /\ result.exc = "IndexError"

\* The constructors _find_reader has to try for the protocol it was
\* asked for, in registry order, and among them those that take the input
\* at a glance and those that take it on the deeper look only.
Candidates == mapping(_READERS, found.method)
Shallow == {i \in DOMAIN Candidates : found.accepts[Candidates[i].ctor[1]] = "shallow"}
DeepOnly == {i \in DOMAIN Candidates : found.accepts[Candidates[i].ctor[1]] = "deep"}
First(S) == CHOOSE i \in S : \A j \in S : i <= j
ReaderOf(i) ==
    [cls |-> Candidates[i].ctor[1], method |-> Candidates[i].ctor[2],
     path |-> found.path, mutated |-> TRUE]
Pass(deeper_check, upto) == [i \in 1..upto |-> <<Candidates[i].ctor, deeper_check>>]

\* C4: _find_reader tries the candidates in registry order with
\* deeper_check = False, then again with deeper_check = True, stops at
\* the first that accepts and returns its mutate(): the first candidate
\* accepting at a glance if there is one, whatever comes before it in the
\* registry, and otherwise the first accepting on the deeper look.
C4_TwoPassDispatch ==
    found.method # "" =>
        /\ Shallow # {} =>
              /\ found.rdr = ReaderOf(First(Shallow))
              /\ found.tries = Pass(FALSE, First(Shallow))
        /\ (Shallow = {} /\ DeepOnly # {}) =>
              /\ found.rdr = ReaderOf(First(DeepOnly))
              /\ found.tries = Pass(FALSE, Len(Candidates)) \o Pass(TRUE, First(DeepOnly))
        /\ (Shallow = {} /\ DeepOnly = {}) =>
              found.tries = Pass(FALSE, Len(Candidates)) \o Pass(TRUE, Len(Candidates))

C4_Witness ==
    /\ found.method = "reader"
    /\ Len(Candidates) >= 2
    /\ 1 \in DeepOnly
    /\ 2 \in Shallow
    /\ found.rdr.cls = Candidates[2].ctor[1]
    /\ found.rdr.mutated

\* C5: when no candidate accepts in either pass, also when there is no
\* candidate, _find_reader returns the Unknown reader, made with the path
\* for the `reader` protocol and with "" for the other two.
C5_UnknownFallback ==
    (found.method # "" /\ Shallow = {} /\ DeepOnly = {}) =>
        /\ found.rdr.cls = "Unknown"
        /\ found.rdr.path = IF found.method = "reader" THEN found.path ELSE ""

C5_Witness ==
    /\ found.method = "memory_reader"
    /\ Len(Candidates) >= 1
    /\ found.rdr.cls = "Unknown"
    /\ found.rdr.path = ""

\* C6: the discovery scan is started once in a process, and two threads
\* are never inside _readers together.
C6_ScanRunsOnce ==
    /\ scans <= 1
    /\ Cardinality({t \in Threads : threads[t].pc \in {"scan", "return"}}) <= 1

\* The modules that can be imported and have a constructor for p.
Exporting(p) ==
    {n \in Range(ModuleNames) : modules[n].loads /\ p \in modules[n].exports}

\* C7: the mapping _readers(p) returns holds, under each name, the
\* constructor for p of a module exporting p that has this name or this
\* alias, and it holds the name and every alias of each such module.
C7_MappingOfProtocol ==
    \A t \in Threads :
        (threads[t].pc = "idle" /\ threads[t].req # "") =>
            LET M == threads[t].ret
                p == threads[t].req
            IN  /\ \A i \in DOMAIN M :
                      /\ M[i].ctor[2] = p
                      /\ M[i].ctor[1] \in Exporting(p)
                      /\ \/ M[i].name = M[i].ctor[1]
                         \/ M[i].name \in Range(modules[M[i].ctor[1]].aliases)
                /\ \A n \in Exporting(p) :
                      \A a \in {n} \cup Range(modules[n].aliases) :
                          \E i \in DOMAIN M : M[i].name = a

\* C8: a key is never assigned while it is in the registry already
\* without the call of _readers raising to its caller.
C8_DuplicateIsFatal ==
    dups # {} => \E t \in Threads : threads[t].exc # ""

\* The index a given slice end stands for on a list of n items: counted
\* from the end when negative, then brought into lower .. upper.
Wrapped(b, n) == IF b[1] < 0 THEN b[1] + n ELSE b[1]
Between(v, lower, upper) == IF v < lower THEN lower ELSE IF v > upper THEN upper ELSE v
StepOf(sl) == IF sl.step = <<>> THEN 1 ELSE sl.step[1]

\* The resolved indexes of slice sl on a list of n items, in the order the
\* slice visits them.
ResolvedIndexes(sl, n) ==
    LET s == StepOf(sl)
        a == IF s > 0
             THEN IF sl.start = <<>> THEN 0 ELSE Between(Wrapped(sl.start, n), 0, n)
             ELSE IF sl.start = <<>> THEN n - 1 ELSE Between(Wrapped(sl.start, n), 0 - 1, n - 1)
        b == IF s > 0
             THEN IF sl.stop = <<>> THEN n ELSE Between(Wrapped(sl.stop, n), 0, n)
             ELSE IF sl.stop = <<>> THEN 0 - 1 ELSE Between(Wrapped(sl.stop, n), 0 - 1, n - 1)
        hit == {k \in 0..n : IF s > 0 THEN a + k * s < b ELSE a + k * s > b}
    IN  [j \in 1..Cardinality(hit) |-> a + (j - 1) * s]

SliceCalls == {"fs.__getitem__slice"}
MultiCalls == {"fs.__getitem__list"}

\* The fields item-at gives for the indexes ix of list l, in their order.
ItemsAt(l, rd, ix) == [j \in DOMAIN ix |-> __getitem__(l, rd, ix[j]).res.val]

\* A slice gave the fields item-at gives over its resolved indexes.
SliceGivesItemsAt ==
    [][
        (op'.name \in SliceCalls /\ StepOf(op'.key) # 0) =>
            LET ix == ResolvedIndexes(op'.key, Len(Contents(fs, reader)))
            IN  /\ result'.exc = ""
                /\ result'.list = ItemsAt(fs', reader', ix)
    ]_vars

\* C11: a slice of a field list (any start, stop and step, omitted or
\* negative) gives the fields item-at(j) gives for j over the slice's
\* resolved indexes, in that order, and what it returns is a
\* FieldListInMemory.
C11_SliceIsFieldList ==
    [][
        (op'.name \in SliceCalls /\ StepOf(op'.key) # 0) =>
            LET ix == ResolvedIndexes(op'.key, Len(Contents(fs, reader)))
            IN  /\ result'.exc = ""
                /\ result'.list = ItemsAt(fs', reader', ix)
                /\ sub' # <<>>
                /\ sub'[1].class = "FieldListInMemory"
    ]_vars

\* Whether every index of ns is within a list of n items.
AllValid(ns, n) == \A j \in DOMAIN ns : 0 - n <= ns[j] /\ ns[j] < n

\* C12: indexing a field list with a list of integers gives the fields at
\* those places, in the order given and with duplicates kept, when every
\* index is valid; with an index out of range it raises IndexError and
\* gives no list, whatever the indexes before it.
C12_FancyIndexing ==
    [][
        op'.name \in MultiCalls =>
            LET ns == op'.key
            IN  IF AllValid(ns, Len(Contents(fs, reader)))
                THEN /\ result'.exc = ""
                     /\ result'.list = ItemsAt(fs', reader', ns)
                ELSE /\ result'.exc = "IndexError"
                     /\ result'.list = <<>>
                     /\ sub' = <<>>
    ]_vars

Reverse(q) == [j \in DOMAIN q |-> q[Len(q) + 1 - j]]
Places(n) == [j \in 1..n |-> j - 1]

\* C13: a forward pass over a field list yields its fields in index order
\* 0 .. length-1, and a second forward pass yields the same sequence; a
\* reverse pass yields the reverse of it, length-1 .. 0; and no pass
\* changes what the list holds, so a forward pass after a reverse pass
\* yields the forward sequence again.
C13_IterationPasses ==
    [][
        LET before == Contents(fs, reader)
        IN  /\ op'.name = "fs.__iter__" =>
                  /\ result'.exc = ""
                  /\ result'.list = before
                  /\ result'.list = ItemsAt(fs', reader', Places(Len(before)))
                  /\ Contents(fs', reader') = before
            /\ op'.name = "fs.__reversed__" =>
                  /\ result'.exc = ""
                  /\ result'.list = Reverse(before)
                  /\ Contents(fs', reader') = before
            /\ (op.name = "fs.__iter__" /\ op'.name = "fs.__iter__") =>
                  result'.list = result.list
            /\ (op.name = "fs.__iter__" /\ op'.name = "fs.__reversed__") =>
                  result'.list = Reverse(result.list)
            /\ (op.name = "fs.__reversed__" /\ op'.name = "fs.__iter__") =>
                  result'.list = Reverse(result.list)
    ]_vars

C13_Witness ==
    /\ op.name = "fs.__reversed__"
    /\ op.cached
    /\ Len(result.list) >= 2
    /\ result.list[1] = Len(origin)
    /\ fs._fields = Reverse(result.list)

\* C14: with records r1..rk remaining (a held lookahead being r1),
\* read_batch(n) for n <= k returns r1..rn as a loaded list and leaves
\* r(n+1)..rk remaining, r(n+1) being what __next__() gives next; for
\* n > k it raises StopIteration and returns no list.
C14_ReadBatch ==
    [][
        op'.name = "read_batch" =>
            LET recs == Remaining(reader)
                n == op'.n
            IN  IF n <= Len(recs)
                THEN /\ result'.exc = ""
                     /\ result'.loaded
                     /\ result'.list = SubSeq(recs, 1, n)
                     /\ Remaining(reader') = SubSeq(recs, n + 1, Len(recs))
                     /\ n < Len(recs) => __next__(reader').val = recs[n + 1]
                ELSE /\ result'.exc = "StopIteration"
                     /\ result'.list = <<>>
                     /\ grp' = grp
    ]_vars

C14_Witness ==
    /\ op.name = "read_batch"
    /\ op.n = 2
    /\ result.exc = ""
    /\ result.list = <<1, 2>>
    /\ reader._peeked = None
    /\ Remaining(reader) = <<3>>

\* The constructors the registry has, or would have once scanned, for
\* the `reader` protocol, by name.
ReaderConstructors == _readers(_READERS, modules, "reader").ret
Registered(name) == \E i \in DOMAIN ReaderConstructors : ReaderConstructors[i].name = name
ConstructorOf(name) ==
    ReaderConstructors[CHOOSE i \in DOMAIN ReaderConstructors :
                           ReaderConstructors[i].name = name].ctor

\* The format name an override stands for: its hyphens are underscores.
FormatName(s) == IF s = "m-2" THEN "m_2" ELSE s

\* C15: reader(source, path) for a Source with a reader override: a
\* callable is called with (source, path) and its Reader returned; a format
\* name is looked up, hyphens read as underscores, among the constructors
\* of the `reader` protocol and the constructor found makes the Reader; any
\* other override raises TypeError; and in none of the three cases is the
\* path tested for a directory or the file opened.
C15_ReaderOverride ==
    /\ made.override = "callable" =>
          /\ made.exc = ""
          /\ made.rdr = ByCallable("path")
    /\ (made.override \in Strings /\ Registered(FormatName(made.override))) =>
          /\ made.exc = ""
          /\ made.rdr = construct(ConstructorOf(FormatName(made.override)), "path",
                                  made.accepts, FALSE)
    /\ made.override = "other" => made.exc = "TypeError"
    /\ made.override \in {"callable", "other"} \cup Strings =>
          /\ ~made.isdir
          /\ ~made.opened

\* C16: a Reader whose Source was collected, or that was constructed
\* without one, gives a defined "no source" (None) on each path through
\* the back-reference (source, filter, merger, cache_file) and raises
\* nothing; and a Source that nobody else holds can be collected whatever
\* Readers were made for it.
C16_NoSourceTolerated ==
    /\ (access.owner # "" /\ (access.life = "collected"
                                \/ constructed(access.owner)._source = "unset")) =>
          /\ access.exc = ""
          /\ access.val = "None"
    /\ source.life = "dropped" => ENABLED CollectSource

\* C17: with no record remaining, read_group(keys) raises StopIteration,
\* returns no group, and leaves the reader with no lookahead and nothing
\* more consumed; so does the read_group that follows the group holding
\* the last record.
C17_GroupAtEnd ==
    [][
        /\ (op'.name = "read_group" /\ Remaining(reader) = <<>>) =>
              /\ result'.exc = "StopIteration"
              /\ result'.list = <<>>
              /\ grp' = grp
              /\ reader'._peeked = None
              /\ reader'.pos = reader.pos
              /\ Remaining(reader') = <<>>
        /\ (op.name = "read_group" /\ result.exc = "" /\ Remaining(reader) = <<>>
              /\ op'.name = "read_group") =>
              /\ result'.exc = "StopIteration"
              /\ reader'._peeked = None
              /\ reader'.pos = Len(origin)
    ]_vars

C17_Witness ==
    /\ op.name = "read_group"
    /\ result.exc = "StopIteration"
    /\ Len(origin) >= 2
    /\ reader.pos = Len(origin)
    /\ grp # <<>>
    /\ grp[1]._fields # <<>>
    /\ grp[1]._fields[Len(grp[1]._fields)] = Len(origin)

\* C18 as claimed: a list over an origin of n records, used through the
\* list interface alone, has issued at most n pulls to the origin.
C18_AtMostNPulls == reader.pulls <= Len(origin)

\* C18: a list over an origin of n records, used through the list
\* interface alone, issues n + 1 pulls at its first access, one for each
\* record and the one that finds the end of the data, and none after it,
\* whatever accesses and passes follow.
C18_DrainPullsOnce ==
    /\ [](reader.pulls <= Len(origin) + 1)
    /\ [](fs._loaded => reader.pulls = Len(origin) + 1)
    /\ [][fs._loaded => reader'.pulls = reader.pulls]_vars

C18_Witness ==
    /\ op.name = "fs.__iter__"
    /\ op.cached
    /\ Len(result.list) >= 2
    /\ reader.pulls = Len(origin) + 1

\* The records of the origin, in the order it yields them.
OriginRecords == [i \in 1..Len(origin) |-> i]

\* C19: as long as every call on the reader has succeeded, the records
\* returned so far by __next__(), read_batch and read_group, followed by
\* what the reader has still to deliver (a record peek() showed first),
\* are the origin's records in order; and once a list over the reader has
\* drained the rest, the records returned are exactly the origin's: none
\* lost, none twice, none out of place.
C19_RecordsInOriginOrder ==
    /\ (~failed /\ ~fs._loaded) => delivered \o Remaining(reader) = OriginRecords
    /\ (~failed /\ fs._loaded) => delivered = OriginRecords

C19_Witness ==
    /\ fs._loaded
    /\ ~failed
    /\ Len(origin) >= 3
    /\ delivered = OriginRecords
    /\ fs._fields = <<3>>
    /\ grp # <<>>
    /\ grp[1]._fields = <<2>>

SubscriptCalls == {"fs.__getitem__"} \cup SliceCalls \cup MultiCalls

\* C20: a subscript of a field list with an integer, a slice or a list of
\* indexes, whether it returns or raises, leaves the list with the same
\* fields in the same order and the same length; and the list a slice
\* returned is independent of it: deleting from that list leaves the field
\* list as it was.
C20_SubscriptLeavesList ==
    [][
        LET before == Contents(fs, reader)
        IN  /\ op'.name \in SubscriptCalls =>
                  /\ Contents(fs', reader') = before
                  /\ __len__(fs', reader').res.val = Len(before)
                  /\ fs._loaded => fs' = fs
            /\ op'.name = "del sub[0]" =>
                  /\ sub'[1].items = Tail(sub[1].items)
                  /\ fs' = fs
                  /\ Contents(fs', reader') = before
    ]_vars

C20_Witness ==
    /\ op.name = "del sub[0]"
    /\ sub # <<>>
    /\ sub[1].items = <<2, 3>>
    /\ fs._fields = <<1, 2, 3>>

\* The calls that take a record from the reader: read_batch(0) asks for none.
Consuming == {"__next__", "read_batch", "read_group"}

\* C21: a reader over one buffer decodes it at most once under every
\* sequence of calls: once anything was pulled the buffer reference is None
\* and there was exactly one decode; no record but the buffer's is ever
\* delivered and it is delivered at most once; __next__() delivers it if no
\* call has taken it yet; and once it has been delivered every consuming
\* call raises StopIteration, and peek() shows None, without a decode.
C21_DecodedOnce ==
    /\ [](/\ reader.decodes <= 1
          /\ reader.pulls >= 1 => (reader.buf = None /\ reader.decodes = 1)
          /\ reader.pulls = 0 => (reader.buf = 1 /\ delivered = <<>>)
          /\ delivered \in {<<>>, <<1>>})
    /\ [][reader' # reader =>
            /\ (op'.name = "__next__" /\ delivered = <<>> /\ ~failed)
                  => (result' = Returned(1) /\ delivered' = <<1>>)
            /\ (delivered = <<1>> /\ op'.name \in Consuming
                    /\ (op'.name = "read_batch" => op'.n >= 1))
                  => (result'.exc = "StopIteration" /\ delivered' = delivered)
            /\ (delivered = <<1>> /\ op'.name = "peek")
                  => (result' = Returned(None) /\ delivered' = delivered)
            /\ delivered = <<1>> => reader'.decodes = reader.decodes]_vars

\* The record was delivered, and after two more pulls that found no
\* buffer __next__() has raised StopIteration.
C21_Witness ==
    /\ "buf" \in DOMAIN reader
    /\ delivered = <<1>>
    /\ op.name = "__next__"
    /\ result.exc = "StopIteration"
    /\ reader.buf = None
    /\ reader.decodes = 1
    /\ reader.pulls >= 3

============================================================================
